---- MODULE Spec2Model ----
(***************************************************************************)
(* Model of shirtmaker.py: arrangeRibbons (grid layout), placeRibbonGrid   *)
(* (compositing) and makeNametape (text on a template).  Bitmaps are       *)
(* modelled pixel by pixel; a pixel is the tuple of its channels, so an    *)
(* RGBA pixel has four entries, an RGB pixel three and an L pixel one.     *)
(***************************************************************************)
EXTENDS Integers, Sequences, FiniteSets, TLC

\* ---------------------------------------------------------------- bounds
MaxTiles == 4
MaxNegPerRow == 1
MaxPerRow == 3
MaxTileW == 2
MaxTileH == 1
MaxCanvas == 2
MaxOverlay == 2
MaxAnchor == 2
MaxTemplateW == 4
MaxTemplateH == 2
MaxTextLen == 5

\* the partition loop of arrangeRibbons is cut after this many iterations
MaxIter == MaxTiles + 2

Modes == {"RGBA", "RGB", "L"}

\* the inks of the canvases handed to placeRibbonGrid
CanvasInks == {1, 4}

\* ------------------------------------------------------- Python builtins
Min(a, b) == IF a < b THEN a ELSE b

\* int(num/2) for an integer num: Python's int() truncates toward zero
IntOfHalf(num) == IF num >= 0 THEN num \div 2 ELSE -((-num) \div 2)

\* a slice bound i clamped to a list of length n, as list slicing does
PyIndex(i, n) ==
  IF i < 0 THEN (IF n + i < 0 THEN 0 ELSE n + i)
           ELSE (IF i > n THEN n ELSE i)

\* s[0:m]
PySliceTo(s, m) == SubSeq(s, 1, PyIndex(m, Len(s)))

\* s[m:]
PySliceFrom(s, m) == SubSeq(s, PyIndex(m, Len(s)) + 1, Len(s))

\* ------------------------------------------------------------- bitmaps
Coords(w, h) == (0 .. (w - 1)) \X (0 .. (h - 1))

\* Image.new(mode, (w, h), color)
NewImage(mode, w, h, color) ==
  [mode |-> mode, size |-> <<w, h>>, px |-> [p \in Coords(w, h) |-> color]]

NoImage == [mode |-> "none", size |-> <<0, 0>>, px |-> [p \in Coords(0, 0) |-> <<>>]]

\* one pixel converted to RGBA: RGB gains an opaque alpha, L is spread
\* over the three colour channels
PixelToRGBA(mode, p) ==
  CASE mode = "RGBA" -> p
    [] mode = "RGB"  -> <<p[1], p[2], p[3], 255>>
    [] mode = "L"    -> <<p[1], p[1], p[1], 255>>

\* Image.convert("RGBA"): a new bitmap, the argument is left alone
ConvertRGBA(im) ==
  [mode |-> "RGBA", size |-> im.size,
   px |-> [p \in DOMAIN im.px |-> PixelToRGBA(im.mode, im.px[p])]]

\* ImageDraw.rectangle([x0, y0, x1, y1], outline = color): the one pixel
\* wide perimeter, both corners included, clipped to the bitmap
OnOutline(p, x0, y0, x1, y1) ==
  /\ x0 <= p[1] /\ p[1] <= x1 /\ y0 <= p[2] /\ p[2] <= y1
  /\ (p[1] = x0 \/ p[1] = x1 \/ p[2] = y0 \/ p[2] = y1)

DrawRectangle(im, x0, y0, x1, y1, color) ==
  [im EXCEPT !.px = [p \in DOMAIN im.px |->
      IF OnOutline(p, x0, y0, x1, y1) THEN color ELSE im.px[p]]]

\* pasted variant that blends: a transparent source pixel keeps the target
PasteBlend(im, src, x, y) ==
  [im EXCEPT !.px = [p \in DOMAIN im.px |->
      IF <<p[1] - x, p[2] - y>> \in DOMAIN src.px
           /\ src.px[<<p[1] - x, p[2] - y>>][4] # 0
      THEN src.px[<<p[1] - x, p[2] - y>>] ELSE im.px[p]]]

\* Image.paste(src, (x, y, x + src.w, y + src.h)) without a mask: every
\* source pixel that falls on the target replaces the target pixel, alpha
\* channel included
Paste(im, src, x, y) ==
  [im EXCEPT !.px = [p \in DOMAIN im.px |->
      IF <<p[1] - x, p[2] - y>> \in DOMAIN src.px
      THEN src.px[<<p[1] - x, p[2] - y>>] ELSE im.px[p]]]

\* ------------------------------------------------------------- inputs
\* the pixel an input bitmap of the given mode holds at p; ink tells the
\* bitmaps apart and alpha varies over the pixels of an RGBA bitmap
InputPixel(mode, ink, p) ==
  CASE mode = "RGBA" -> <<ink, p[1], p[2], IF (ink + p[1] + p[2]) % 2 = 0 THEN 255 ELSE 0>>
    [] mode = "RGB"  -> <<ink, p[1], p[2]>>
    [] mode = "L"    -> <<ink + p[1] + 3 * p[2]>>

InputImage(mode, w, h, ink) ==
  [mode |-> mode, size |-> <<w, h>>,
   px |-> [p \in Coords(w, h) |-> InputPixel(mode, ink, p)]]

\* the list of n ribbons handed to arrangeRibbons, each of the given size
RibbonList(n, mode, w, h) == [i \in 1 .. n |-> InputImage(mode, w, h, 10 * i)]

\* --------------------------------------------------------------- state
VARIABLES
  pc,               \* position of the one thread of control
  tiles,            \* arrangeRibbons: the caller's list (never mutated)
  ribbons,          \* arrangeRibbons: local `ribbons`, rebound by the loop
  rows,             \* arrangeRibbons: local `rows`
  ribbonDimensions, \* arrangeRibbons: argument
  ribbonsPerRow,    \* arrangeRibbons: argument
  iters,            \* arrangeRibbons: iterations of the while loop so far
  step,             \* arrangeRibbons: ribbons handled by the nested for loops
  placed,           \* arrangeRibbons: the locals of each nested iteration
  resultImage,      \* arrangeRibbons: local `resultImage`
  heap,             \* bitmap objects of placeRibbonGrid / makeNametape calls
  args,             \* arguments of the placeRibbonGrid / makeNametape call
  ret,              \* reference returned by placeRibbonGrid / makeNametape
  warnings,         \* warnings printed by the call
  raised            \* exception that ended the call, or "none"

vars == <<pc, tiles, ribbons, rows, ribbonDimensions, ribbonsPerRow, iters,
          step, placed, resultImage, heap, args, ret, warnings, raised>>

arrangeVars == <<tiles, ribbons, rows, ribbonDimensions, ribbonsPerRow, iters,
                 step, placed, resultImage>>

callVars == <<heap, args, ret, warnings>>

\* references into heap
TShirtRef == 1
RibbonsRef == 2
FreshRef(h) == Len(h) + 1
NoRef == 0

\* the arguments as the caller passed them: bitmaps are recorded as they
\* were at the call, whatever the call does to them afterwards
NoArgs == [op |-> "none", tShirt |-> NoImage, ribbons |-> NoImage,
           origin |-> <<0, 0>>, alignTop |-> TRUE, textLength |-> 0]

Init ==
  /\ pc = "idle"
  /\ tiles = <<>>
  /\ ribbons = <<>>
  /\ rows = <<>>
  /\ ribbonDimensions = <<0, 0>>
  /\ ribbonsPerRow = 1
  /\ iters = 0
  /\ step = 0
  /\ placed = <<>>
  /\ resultImage = NoImage
  /\ heap = <<>>
  /\ args = NoArgs
  /\ ret = NoRef
  /\ warnings = {}
  /\ raised = "none"

\* ------------------------------------------------------ arrangeRibbons
\* entry: the arguments are bound, rows = []
CallArrange ==
  /\ pc = "idle"
  /\ \E n \in 0 .. MaxTiles, mode \in Modes, w \in 0 .. MaxTileW,
        h \in 0 .. MaxTileH, k \in -MaxNegPerRow .. MaxPerRow :
       /\ tiles' = RibbonList(n, mode, w, h)
       /\ ribbons' = RibbonList(n, mode, w, h)
       /\ ribbonDimensions' = <<w, h>>
       /\ ribbonsPerRow' = k
  /\ rows' = <<>>
  /\ args' = [NoArgs EXCEPT !.op = "arrange"]
  /\ pc' = "partition"
  /\ UNCHANGED <<iters, step, placed, resultImage, heap, ret, warnings, raised>>

\* variant of the loop body that drops the ribbon at the row boundary
PartitionRestSkip(rs, k) == PySliceFrom(rs, Min(Len(rs), k) + 1)

\* ribbons[0:min(len(ribbons), ribbonsPerRow)]
PartitionHead(rs, k) == PySliceTo(rs, Min(Len(rs), k))

\* ribbons[min(len(ribbons), ribbonsPerRow):]
PartitionRest(rs, k) == PySliceFrom(rs, Min(Len(rs), k))

\* one iteration of `while len(ribbons) > 0`
PartitionStep ==
  /\ pc = "partition"
  /\ Len(ribbons) > 0
  /\ iters < MaxIter
  /\ rows' = Append(rows, PartitionHead(ribbons, ribbonsPerRow))
  /\ ribbons' = PartitionRest(ribbons, ribbonsPerRow)
  /\ iters' = iters + 1
  /\ UNCHANGED <<pc, tiles, ribbonDimensions, ribbonsPerRow, step, placed,
                 resultImage, callVars, raised>>

\* variant that forgets the border column between the ribbons
CanvasWidthNoBorder(dims, k) == 1 + dims[1] * k

\* width handed to Image.new
CanvasWidth(dims, k) == 1 + (dims[1] + 1) * k

\* variant that forgets the closing border line
CanvasHeightNoMargin(dims, rowAmount) == rowAmount * (dims[2] + 1)

\* height handed to Image.new
CanvasHeight(dims, rowAmount) == rowAmount * (dims[2] + 1) + 1

\* loop exit, rowAmount = len(rows) and Image.new, which rejects a
\* negative width or height
CreateResultImage ==
  /\ pc = "partition"
  /\ Len(ribbons) = 0
  /\ LET w == CanvasWidth(ribbonDimensions, ribbonsPerRow)
         h == CanvasHeight(ribbonDimensions, Len(rows))
     IN IF w < 0 \/ h < 0
        THEN /\ raised' = "ValueError"
             /\ pc' = "raised"
             /\ UNCHANGED resultImage
        ELSE /\ resultImage' = NewImage("RGBA", w, h, <<255, 255, 255, 0>>)
             /\ pc' = "place"
             /\ UNCHANGED raised
  /\ UNCHANGED <<tiles, ribbons, rows, ribbonDimensions, ribbonsPerRow, iters,
                 step, placed, callVars>>

\* the (rowIndex, ribbonIndex) pairs in the order the nested enumerate
\* loops visit them, both 0-based
RECURSIVE RowOrder(_, _, _)
RowOrder(rs, r, c) ==
  IF r > Len(rs) THEN <<>>
  ELSE IF c > Len(rs[r]) THEN RowOrder(rs, r + 1, 1)
  ELSE <<(<<r - 1, c - 1>>)>> \o RowOrder(rs, r, c + 1)

VisitOrder(rs) == RowOrder(rs, 1, 1)

\* variant that left-aligns a short row
RibbonOriginXLeft(dims, k, rowLength, ribbonIndex) ==
  (dims[1] + 1) * ribbonIndex + 1

\* int(((w+1)/2)*(ribbonsPerRow - len(row)) + (w+1)*ribbonIndex + 1): the
\* float sum is truncated as a whole
RibbonOriginX(dims, k, rowLength, ribbonIndex) ==
  IntOfHalf((dims[1] + 1) * (k - rowLength)
            + 2 * ((dims[1] + 1) * ribbonIndex + 1))

\* variant that stacks the rows without the one pixel border line
RibbonOriginYTight(dims, rowAmount, rowIndex) ==
  rowAmount * dims[2] - (rowAmount - rowIndex) * dims[2] + 1

RibbonOriginY(dims, rowAmount, rowIndex) ==
  rowAmount * (dims[2] + 1) - (rowAmount - rowIndex) * (dims[2] + 1) + 1

\* the locals of one iteration of the inner loop
Placement(rs, dims, k, rowIndex, ribbonIndex) ==
  LET ox == RibbonOriginX(dims, k, Len(rs[rowIndex + 1]), ribbonIndex)
      oy == RibbonOriginY(dims, Len(rs), rowIndex)
  IN [rowIndex |-> rowIndex, ribbonIndex |-> ribbonIndex,
      ribbon |-> rs[rowIndex + 1][ribbonIndex + 1],
      ribbonOriginX |-> ox, ribbonOriginY |-> oy,
      borderOriginX |-> ox - 1, borderOriginY |-> oy - 1,
      borderMaxX |-> (ox - 1) + dims[1] + 1,
      borderMaxY |-> (oy - 1) + dims[2] + 1]

\* one iteration of the inner for loop: outline, then the ribbon
PlaceRibbon ==
  /\ pc = "place"
  /\ step < Len(VisitOrder(rows))
  /\ LET at == VisitOrder(rows)[step + 1]
         pl == Placement(rows, ribbonDimensions, ribbonsPerRow, at[1], at[2])
         outlined == DrawRectangle(resultImage, pl.borderOriginX, pl.borderOriginY,
                                   pl.borderMaxX, pl.borderMaxY, <<80, 80, 80, 255>>)
     IN /\ resultImage' = Paste(outlined, ConvertRGBA(pl.ribbon),
                                pl.ribbonOriginX, pl.ribbonOriginY)
        /\ placed' = Append(placed, pl)
  /\ step' = step + 1
  /\ UNCHANGED <<pc, tiles, ribbons, rows, ribbonDimensions, ribbonsPerRow,
                 iters, callVars, raised>>

\* return resultImage
ArrangeReturn ==
  /\ pc = "place"
  /\ step = Len(VisitOrder(rows))
  /\ pc' = "arranged"
  /\ UNCHANGED <<arrangeVars, callVars, raised>>

\* ----------------------------------------------------- placeRibbonGrid
\* variant that moves the anchor down instead of up
AlignedOriginDown(origin, alignTop, ribbonsSize) ==
  IF ~alignTop THEN <<origin[1], origin[2] + ribbonsSize[2]>> ELSE origin

\* if not alignTop: origin = (origin[0], origin[1] - ribbons.size[1])
AlignedOrigin(origin, alignTop, ribbonsSize) ==
  IF ~alignTop THEN <<origin[1], origin[2] - ribbonsSize[2]>> ELSE origin

\* variant that always pastes into a converted copy
ResultRefCopy(h) == FreshRef(h)

\* resultImage = tShirt, rebound to a converted copy when not RGBA
ResultRef(h) == IF h[TShirtRef].mode # "RGBA" THEN FreshRef(h) ELSE TShirtRef

\* the heap once the body has run on a heap holding the two arguments,
\* the reference returned and the warnings printed
PlaceRibbonGrid(h0, origin, alignTop) ==
  LET resultRef == ResultRef(h0)
      h1 == IF resultRef # TShirtRef
            THEN Append(h0, ConvertRGBA(h0[TShirtRef])) ELSE h0
      ribbonsRef == IF h1[RibbonsRef].mode # "RGBA" THEN FreshRef(h1) ELSE RibbonsRef
      h2 == IF h1[RibbonsRef].mode # "RGBA"
            THEN Append(h1, ConvertRGBA(h1[RibbonsRef])) ELSE h1
      size == h0[TShirtRef].size
      outside == ~(0 <= origin[1] /\ origin[1] < size[1])
                 \/ ~(0 <= origin[2] /\ origin[2] < size[2])
      at == AlignedOrigin(origin, alignTop, h2[ribbonsRef].size)
  IN [heap |-> [h2 EXCEPT ![resultRef] = Paste(h2[resultRef], h2[ribbonsRef], at[1], at[2])],
      ret |-> resultRef,
      warnings |-> (IF h0[TShirtRef].mode # "RGBA" THEN {"tShirt mode"} ELSE {})
                   \cup (IF h0[RibbonsRef].mode # "RGBA" THEN {"ribbons mode"} ELSE {})
                   \cup (IF outside THEN {"origin outside"} ELSE {})]

\* a whole call of placeRibbonGrid
CallPlaceRibbonGrid ==
  /\ pc = "idle"
  /\ \E cmode \in Modes, cw \in 1 .. MaxCanvas, ch \in 1 .. MaxCanvas,
        omode \in Modes, ow \in 1 .. MaxOverlay, oh \in 1 .. MaxOverlay,
        x \in -1 .. MaxAnchor, y \in -1 .. MaxAnchor, alignTop \in BOOLEAN,
        ink \in CanvasInks :
       LET tShirt == InputImage(cmode, cw, ch, ink)
           grid == InputImage(omode, ow, oh, 2)
           out == PlaceRibbonGrid(<<tShirt, grid>>, <<x, y>>, alignTop)
       IN /\ args' = [NoArgs EXCEPT !.op = "place", !.tShirt = tShirt,
                                    !.ribbons = grid, !.origin = <<x, y>>,
                                    !.alignTop = alignTop]
          /\ heap' = out.heap
          /\ ret' = out.ret
          /\ warnings' = out.warnings
  /\ pc' = "placed"
  /\ UNCHANGED <<arrangeVars, raised>>

\* -------------------------------------------------------- makeNametape
TemplateRef == 1

\* ImageDraw.Draw(im, "RGBA") accepts an RGBA bitmap, and an RGB bitmap
\* (on which it blends); any other mode is a ValueError
DrawAccepts(mode) == mode \in {"RGBA", "RGB"}

\* the ink a colour leaves on a bitmap of the given mode
Ink(mode, color) == IF mode = "RGB" THEN <<color[1], color[2], color[3]>> ELSE color

\* text drawn at (x0, 1): the glyphs are taken to ink the first row of
\* every pixel column the text measures
DrawText(im, x0, textLength, color) ==
  [im EXCEPT !.px = [p \in DOMAIN im.px |->
      IF p[2] = 1 /\ x0 <= p[1] /\ p[1] < x0 + textLength
      THEN Ink(im.mode, color) ELSE im.px[p]]]

\* the heap once the body has run on a heap holding the template, the
\* reference returned, the warnings printed and the exception raised
MakeNametape(h0, textLength, color) ==
  LET nametape == TemplateRef
      h1 == IF h0[nametape].mode # "RGBA"
            THEN Append(h0, ConvertRGBA(h0[nametape])) ELSE h0
      warnMode == IF h0[nametape].mode # "RGBA" THEN {"template mode"} ELSE {}
      templateCenterX == h1[nametape].size[1] \div 2
      textCenterX == textLength \div 2
  IN IF ~DrawAccepts(h1[nametape].mode)
     THEN [heap |-> h1, ret |-> NoRef, warnings |-> warnMode, raised |-> "ValueError"]
     ELSE [heap |-> [h1 EXCEPT ![nametape] =
                       DrawText(h1[nametape], templateCenterX - textCenterX,
                                textLength, color)],
           ret |-> nametape,
           warnings |-> warnMode \cup
                        (IF textLength > h1[nametape].size[1] THEN {"text too long"} ELSE {}),
           raised |-> "none"]

\* a whole call of makeNametape
CallMakeNametape ==
  /\ pc = "idle"
  /\ \E mode \in Modes, w \in 1 .. MaxTemplateW, h \in 1 .. MaxTemplateH,
        textLength \in 0 .. MaxTextLen :
       LET template == InputImage(mode, w, h, 3)
           out == MakeNametape(<<template>>, textLength, <<255, 255, 255, 255>>)
       IN /\ args' = [NoArgs EXCEPT !.op = "nametape", !.tShirt = template,
                                    !.textLength = textLength]
          /\ heap' = out.heap
          /\ ret' = out.ret
          /\ warnings' = out.warnings
          /\ raised' = out.raised
          /\ pc' = IF out.raised = "none" THEN "taped" ELSE "raised"
  /\ UNCHANGED arrangeVars

Next ==
  \/ CallArrange
  \/ PartitionStep
  \/ CreateResultImage
  \/ PlaceRibbon
  \/ ArrangeReturn
  \/ CallPlaceRibbonGrid
  \/ CallMakeNametape

Spec == Init /\ [][Next]_vars

\* ------------------------------------------------------------ properties
Ceil(n, k) == (n + k - 1) \div k

Abs(a) == IF a < 0 THEN -a ELSE a

RECURSIVE FlattenRows(_)
FlattenRows(rs) == IF rs = <<>> THEN <<>> ELSE Head(rs) \o FlattenRows(Tail(rs))

\* arrangeRibbons has created its canvas
Laid == args.op = "arrange" /\ pc \in {"place", "arranged"}

\* C1: for n > 0 ribbons and ribbonsPerRow k >= 1 the grid has exactly
\* ceil(n/k) rows, width 1 + (w+1)*k whatever n is, and height
\* ceil(n/k)*(h+1) + 1
C1_GridSize ==
  (Laid /\ Len(tiles) > 0 /\ ribbonsPerRow >= 1) =>
    /\ Len(rows) = Ceil(Len(tiles), ribbonsPerRow)
    /\ resultImage.size[1] = 1 + (ribbonDimensions[1] + 1) * ribbonsPerRow
    /\ resultImage.size[2] =
         Ceil(Len(tiles), ribbonsPerRow) * (ribbonDimensions[2] + 1) + 1

\* a returned grid whose last row is short
C1_Witness ==
  /\ pc = "arranged" /\ Len(tiles) = 4 /\ ribbonsPerRow = 3 /\ Len(rows) = 2
  /\ resultImage.size = <<1 + (ribbonDimensions[1] + 1) * 3,
                          2 * (ribbonDimensions[2] + 1) + 1>>

\* the placements of row r (1-based) among those made so far
RowPlacements(r) == {i \in 1 .. Len(placed) : placed[i].rowIndex = r - 1}

\* gap left of the first bordered cell and right of the last one of a
\* completely placed row r
LeftGap(r) ==
  LET first == CHOOSE i \in RowPlacements(r) : placed[i].ribbonIndex = 0
  IN placed[first].borderOriginX

RightGap(r) ==
  LET last == CHOOSE i \in RowPlacements(r) : placed[i].ribbonIndex = Len(rows[r]) - 1
  IN (resultImage.size[1] - 1) - placed[last].borderMaxX

\* C2: a row with fewer than ribbonsPerRow ribbons is centered: the gap
\* left of its first bordered cell and the gap right of its last bordered
\* cell differ by at most one pixel
C2_ShortRowCentered ==
  pc = "arranged" =>
    \A r \in 1 .. Len(rows) :
      (1 <= Len(rows[r]) /\ Len(rows[r]) < ribbonsPerRow) =>
        /\ LeftGap(r) >= 0
        /\ RightGap(r) >= 0
        /\ Abs(LeftGap(r) - RightGap(r)) <= 1

\* a short row whose free space is an odd number of pixels, so that the
\* truncation shows
C2_Witness ==
  /\ pc = "arranged"
  /\ \E r \in 1 .. Len(rows) :
       /\ Len(rows[r]) < ribbonsPerRow
       /\ LeftGap(r) >= 1
       /\ RightGap(r) = LeftGap(r) + 1

\* the heap a call of placeRibbonGrid started from
CallHeap == <<args.tShirt, args.ribbons>>

\* C3: alignTop = false with anchor (x, y) leaves the canvas, and the
\* bitmap returned, with the pixels alignTop = true with anchor
\* (x, y - overlay.height) gives on an identical canvas
C3_AlignBottomIsShiftedTop ==
  (pc = "placed" /\ ~args.alignTop) =>
    LET top == PlaceRibbonGrid(CallHeap,
                 <<args.origin[1], args.origin[2] - args.ribbons.size[2]>>, TRUE)
    IN /\ ret = top.ret
       /\ heap[ret].px = top.heap[top.ret].px
       /\ heap[TShirtRef].px = top.heap[TShirtRef].px

\* a bottom-aligned call that changed pixels of the bitmap it returns
C3_Witness ==
  /\ pc = "placed" /\ ~args.alignTop
  /\ \E p \in DOMAIN heap[ret].px :
       heap[ret].px[p] # ConvertRGBA(args.tShirt).px[p]

\* C4: after a paste at anchor (0,0) with alignTop = true every pixel of
\* the top-left overlay.width x overlay.height region of the canvas pasted
\* onto is the overlay's pixel, alpha included, whatever the canvas held
C4_PasteReplaces ==
  (pc = "placed" /\ args.alignTop /\ args.origin = <<0, 0>>) =>
    \A p \in DOMAIN heap[ret].px \cap DOMAIN args.ribbons.px :
      heap[ret].px[p] = PixelToRGBA(args.ribbons.mode, args.ribbons.px[p])

\* such a paste in which a fully transparent overlay pixel landed on the
\* canvas
C4_Witness ==
  /\ pc = "placed" /\ args.alignTop /\ args.origin = <<0, 0>>
  /\ args.ribbons.mode = "RGBA"
  /\ \E p \in DOMAIN heap[ret].px \cap DOMAIN args.ribbons.px :
       /\ args.ribbons.px[p][4] = 0
       /\ heap[ret].px[p] # ConvertRGBA(args.tShirt).px[p]

\* the call was handed a bitmap that is not RGBA
NonRGBAPassed ==
  \/ args.op = "arrange" /\ \E i \in 1 .. Len(tiles) : tiles[i].mode # "RGBA"
  \/ args.op = "place" /\ (args.tShirt.mode # "RGBA" \/ args.ribbons.mode # "RGBA")
  \/ args.op = "nametape" /\ args.tShirt.mode # "RGBA"

\* C5: handed a non-RGBA bitmap, none of the three operations raises and
\* the bitmap returned is RGBA
C5_NeverRaisesReturnsRGBA ==
  NonRGBAPassed =>
    /\ raised = "none"
    /\ pc = "arranged" => resultImage.mode = "RGBA"
    /\ pc \in {"placed", "taped"} => heap[ret].mode = "RGBA"

\* the anchor the overlay ends up at
EffectiveAnchor ==
  IF args.alignTop THEN args.origin
  ELSE <<args.origin[1], args.origin[2] - args.ribbons.size[2]>>

\* bitmap im shows the overlay of the call wherever the overlay, put at
\* the anchor, falls on it
ShowsOverlay(im) ==
  \A p \in DOMAIN im.px :
    LET q == <<p[1] - EffectiveAnchor[1], p[2] - EffectiveAnchor[2]>>
    IN q \in DOMAIN args.ribbons.px =>
         im.px[p] = PixelToRGBA(args.ribbons.mode, args.ribbons.px[q])

C7_LoopBoundedByTileCount ==
  args.op = "arrange" => iters <= Len(tiles)

\* C8: an empty ribbon list gives, without an exception, zero rows, no
\* outline and no ribbon, and a fully transparent canvas of width
\* 1 + (w+1)*ribbonsPerRow and height 1
C8_EmptyInput ==
  (args.op = "arrange" /\ Len(tiles) = 0 /\ ribbonsPerRow >= 0) =>
    /\ raised = "none"
    /\ iters = 0
    /\ Laid =>
         /\ Len(rows) = 0
         /\ placed = <<>>
         /\ resultImage.size = <<1 + (ribbonDimensions[1] + 1) * ribbonsPerRow, 1>>
         /\ \A p \in DOMAIN resultImage.px : resultImage.px[p][4] = 0

\* arrangeRibbons returned for an empty list
C8_Witness ==
  /\ pc = "arranged" /\ Len(tiles) = 0 /\ ribbonsPerRow = 3
  /\ resultImage.size[1] > 1 /\ resultImage.size[2] = 1

\* C9: the rows are consecutive slices of the input in order: all rows
\* but the last hold ribbonsPerRow ribbons, the last holds 1..ribbonsPerRow,
\* and input ribbon i lands in row i div k, column i mod k at vertical
\* origin (i div k)*(h+1) + 1
C9_RowsPartitionInOrder ==
  (args.op = "arrange" /\ ribbonsPerRow >= 1) =>
    /\ FlattenRows(rows) \o ribbons = tiles
    /\ \A r \in 1 .. Len(rows) :
         /\ 1 <= Len(rows[r]) /\ Len(rows[r]) <= ribbonsPerRow
         /\ (r < Len(rows) \/ Len(ribbons) > 0) => Len(rows[r]) = ribbonsPerRow
    /\ \A j \in 1 .. Len(placed) :
         LET i == j - 1
         IN /\ placed[j].ribbon = tiles[j]
            /\ placed[j].rowIndex = i \div ribbonsPerRow
            /\ placed[j].ribbonIndex = i % ribbonsPerRow
            /\ placed[j].ribbonOriginY =
                 (i \div ribbonsPerRow) * (ribbonDimensions[2] + 1) + 1

\* three ribbons, two per row, all placed
C9_Witness ==
  /\ pc = "arranged" /\ Len(tiles) = 3 /\ ribbonsPerRow = 2
  /\ Len(placed) = 3 /\ placed[3].rowIndex = 1 /\ placed[3].ribbonIndex = 0

\* the pixels under the ribbon of placement pl
Footprint(pl) ==
  {p \in (pl.ribbonOriginX .. (pl.ribbonOriginX + ribbonDimensions[1] - 1))
         \X (pl.ribbonOriginY .. (pl.ribbonOriginY + ribbonDimensions[2] - 1)) : TRUE}

\* the pixels of the outline of placement pl
Border(pl) ==
  {p \in (pl.borderOriginX .. pl.borderMaxX) \X (pl.borderOriginY .. pl.borderMaxY) :
     OnOutline(p, pl.borderOriginX, pl.borderOriginY, pl.borderMaxX, pl.borderMaxY)}

\* C10: every footprint and every outline lies on the canvas, no two
\* footprints overlap, no outline of a later ribbon touches the footprint
\* of an earlier one, and so every ribbon placed so far is intact
C10_TilesIntact ==
  (Laid /\ ribbonsPerRow >= 1) =>
    /\ \A j \in 1 .. Len(placed) :
         /\ Footprint(placed[j]) \subseteq DOMAIN resultImage.px
         /\ Border(placed[j]) \subseteq DOMAIN resultImage.px
         /\ \A p \in Footprint(placed[j]) :
              resultImage.px[p] =
                PixelToRGBA(placed[j].ribbon.mode,
                  placed[j].ribbon.px[<<p[1] - placed[j].ribbonOriginX,
                                        p[2] - placed[j].ribbonOriginY>>])
    /\ \A i \in 1 .. Len(placed) : \A j \in 1 .. Len(placed) :
         i < j => /\ Footprint(placed[i]) \cap Footprint(placed[j]) = {}
                  /\ Footprint(placed[i]) \cap Border(placed[j]) = {}

\* a centered one-ribbon last row under a full row of non-empty ribbons
C10_Witness ==
  /\ pc = "arranged" /\ ribbonsPerRow = 3 /\ Len(tiles) = 4
  /\ ribbonDimensions = <<2, 1>>
  /\ placed[4].rowIndex = 1
  /\ placed[4].borderOriginX > 0

====
